---- MODULE Spec2Model ----
(***************************************************************************)
(* Model of the OpenRouter model-price comparison table.                   *)
(*                                                                         *)
(* The repository holds three variants of the PricingTable component:      *)
(*   "A"  src/unnamed/part_000 lines 1-572: fetches once on mount through  *)
(*        src/app/fetcher.ts, 15 rows per page, hide-free filter;          *)
(*   "B"  src/unnamed/part_000 lines 574-1396: own fetchModels with a      *)
(*        manual refresh button, 15 rows per page, hide-free filter,       *)
(*        description search;                                              *)
(*   "C"  src/components/pricing-table.tsx: manual refresh, 10 rows per    *)
(*        page, no hide-free filter, prices per thousand tokens.           *)
(* The variable variant selects the component that is mounted.             *)
(*                                                                         *)
(* JavaScript strings are sequences of one-character strings; a number   *)
(* is a decimal m / 10^e, or NaN.                                          *)
(***************************************************************************)
EXTENDS Integers, Sequences, FiniteSets, TLC

\* ------------------------------------------------------------------------
\* Strings
\* ------------------------------------------------------------------------

Min(a, b) == IF a < b THEN a ELSE b

Max(a, b) == IF a > b THEN a ELSE b

RECURSIVE Pow10(_)
Pow10(n) == IF n <= 0 THEN 1 ELSE 10 * Pow10(n - 1)

DigitChars == <<"0", "1", "2", "3", "4", "5", "6", "7", "8", "9">>

LowerChars == <<"a", "b", "c", "d", "e", "f", "g", "h", "i", "j", "k", "l", "m",
                "n", "o", "p", "q", "r", "s", "t", "u", "v", "w", "x", "y", "z">>

UpperChars == <<"A", "B", "C", "D", "E", "F", "G", "H", "I", "J", "K", "L", "M",
                "N", "O", "P", "Q", "R", "S", "T", "U", "V", "W", "X", "Y", "Z">>

SignChars == <<" ", "_", "-", ".", "(", ")", "/", "$", "<", ":", "+">>

Chars ==
  {DigitChars[i] : i \in 1..10} \cup {LowerChars[i] : i \in 1..26}
    \cup {UpperChars[i] : i \in 1..26} \cup {SignChars[i] : i \in 1..Len(SignChars)}

\* the value of a digit, -1 for another character
DigitOf == [c \in Chars |-> IF \E i \in 1..10 : DigitChars[i] = c
                            THEN (CHOOSE i \in 1..10 : DigitChars[i] = c) - 1 ELSE -1]

\* the place of a letter in the alphabet, 0 for another character
UpperOf == [c \in Chars |-> IF \E i \in 1..26 : UpperChars[i] = c
                            THEN CHOOSE i \in 1..26 : UpperChars[i] = c ELSE 0]

LowerOf == [c \in Chars |-> IF \E i \in 1..26 : LowerChars[i] = c
                            THEN CHOOSE i \in 1..26 : LowerChars[i] = c ELSE 0]

IsDigit(c) == DigitOf[c] >= 0

DigitVal(c) == DigitOf[c]

IsUpper(c) == UpperOf[c] > 0

IsLower(c) == LowerOf[c] > 0

\* String.prototype.toLowerCase and toUpperCase, one character
LowerCharOf == [c \in Chars |-> IF UpperOf[c] > 0 THEN LowerChars[UpperOf[c]] ELSE c]

UpperCharOf == [c \in Chars |-> IF LowerOf[c] > 0 THEN UpperChars[LowerOf[c]] ELSE c]

LowerChar(c) == LowerCharOf[c]

UpperChar(c) == UpperCharOf[c]

toLowerCase(s) == [i \in 1..Len(s) |-> LowerChar(s[i])]

\* String.prototype.includes
includes(s, sub) ==
  \E i \in 0..(Len(s) - Len(sub)) : SubSeq(s, i + 1, i + Len(sub)) = sub

\* Array.prototype.includes
arrayIncludes(arr, x) == \E i \in 1..Len(arr) : arr[i] = x

\* String.prototype.split with a one-character separator
RECURSIVE split(_, _)
split(s, sep) ==
  IF \A i \in 1..Len(s) : s[i] # sep
    THEN <<s>>
    ELSE LET k == CHOOSE i \in 1..Len(s) : s[i] = sep /\ \A j \in 1..(i - 1) : s[j] # sep
         IN  <<SubSeq(s, 1, k - 1)>> \o split(SubSeq(s, k + 1, Len(s)), sep)

\* String.prototype.replace with a one-character pattern: the first occurrence only
replaceFirst(s, c) ==
  IF \A i \in 1..Len(s) : s[i] # c
    THEN s
    ELSE LET k == CHOOSE i \in 1..Len(s) : s[i] = c /\ \A j \in 1..(i - 1) : s[j] # c
         IN  SubSeq(s, 1, k - 1) \o SubSeq(s, k + 1, Len(s))

\* Number.prototype.toString of a non-negative integer
RECURSIVE IntToString(_)
IntToString(n) ==
  IF n < 10 THEN <<DigitChars[n + 1]>>
  ELSE IntToString(n \div 10) \o <<DigitChars[(n % 10) + 1]>>

\* n written with exactly d digits, zero padded on the left
RECURSIVE PadDigits(_, _)
PadDigits(n, d) ==
  IF d <= 0 THEN <<>> ELSE PadDigits(n \div 10, d - 1) \o <<DigitChars[(n % 10) + 1]>>

RECURSIVE StripTrailingZeros(_)
StripTrailingZeros(s) ==
  IF Len(s) > 0 /\ s[Len(s)] = "0" THEN StripTrailingZeros(SubSeq(s, 1, Len(s) - 1)) ELSE s

\* the value of a run of digits
RECURSIVE DigitsValue(_)
DigitsValue(s) ==
  IF Len(s) = 0 THEN 0 ELSE 10 * DigitsValue(SubSeq(s, 1, Len(s) - 1)) + DigitVal(s[Len(s)])

\* the length of the longest run of digits s starts with, from position i
RECURSIVE DigitRun(_, _)
DigitRun(s, i) == IF i <= Len(s) /\ IsDigit(s[i]) THEN 1 + DigitRun(s, i + 1) ELSE 0

\* ------------------------------------------------------------------------
\* Numbers: [nan |-> BOOLEAN, m |-> Int, e |-> Nat] is the decimal m / 10^e
\* ------------------------------------------------------------------------

NaN == [nan |-> TRUE, m |-> 0, e |-> 0]

Num(m, e) == [nan |-> FALSE, m |-> m, e |-> e]

\* Number.parseFloat on a plain decimal literal: optional sign, digits, optional
\* point and digits; the longest such prefix; NaN when it holds no digit.
parseFloat(s) ==
  LET neg   == Len(s) > 0 /\ s[1] = "-"
      start == IF Len(s) > 0 /\ (s[1] = "-" \/ s[1] = "+") THEN 2 ELSE 1
      nInt  == DigitRun(s, start)
      dot   == start + nInt
      hasDot == dot <= Len(s) /\ s[dot] = "."
      nFrac == IF hasDot THEN DigitRun(s, dot + 1) ELSE 0
      mag   == DigitsValue(SubSeq(s, start, start + nInt - 1)
                           \o SubSeq(s, dot + 1, dot + nFrac))
  IN  IF nInt + nFrac = 0 THEN NaN ELSE Num(IF neg THEN 0 - mag ELSE mag, nFrac)

\* x * 10^k
Scale10(x, k) ==
  IF x.nan THEN NaN
  ELSE IF x.e >= k THEN Num(x.m, x.e - k)
  ELSE Num(x.m * Pow10(k - x.e), 0)

\* x < 1 / 10^k; a comparison with NaN is false
LessThanFraction(x, k) ==
  /\ ~x.nan
  /\ IF x.e >= k THEN (x.e - k >= 10 \/ x.m < Pow10(x.e - k))
     ELSE x.m * Pow10(k - x.e) < 1

\* the sign of a - b for numbers a and b, both not NaN
CompareNum(a, b) ==
  LET e  == Max(a.e, b.e)
      am == a.m * Pow10(e - a.e)
      bm == b.m * Pow10(e - b.e)
  IN  IF am < bm THEN -1 ELSE IF am > bm THEN 1 ELSE 0

\* Number.prototype.toFixed(d): the nearest multiple of 10^-d, the larger of two
\* equally near ones
toFixed(x, d) ==
  IF x.nan THEN <<"N", "a", "N">>
  ELSE LET mag  == IF x.m < 0 THEN 0 - x.m ELSE x.m
           n    == IF x.e <= d THEN mag * Pow10(d - x.e)
                   ELSE IF x.e - d >= 10 THEN 0
                   ELSE (2 * mag + Pow10(x.e - d)) \div (2 * Pow10(x.e - d))
           body == IntToString(n \div Pow10(d))
                   \o (IF d > 0 THEN <<".">> \o PadDigits(n % Pow10(d), d) ELSE <<>>)
       IN  IF x.m < 0 THEN <<"-">> \o body ELSE body

\* Number.prototype.toString of q / 10^k for integers q >= 0 (a template literal)
QuotientToString(q, k) ==
  LET ip == q \div Pow10(k)
      fr == StripTrailingZeros(PadDigits(q % Pow10(k), k))
  IN  IF Len(fr) = 0 THEN IntToString(ip) ELSE IntToString(ip) \o <<".">> \o fr

\* ------------------------------------------------------------------------
\* Formatter and feature extractor
\* ------------------------------------------------------------------------

Str_NA == <<"N", "/", "A">>

\* a formatPrice with one decimal place whatever the value
formatPriceOneDecimal(price) ==
  LET pricePerToken == parseFloat(price)
  IN  IF ~pricePerToken.nan /\ pricePerToken.m < 0 THEN Str_NA
      ELSE <<"$">> \o toFixed(Scale10(pricePerToken, 6), 1)

\* formatPrice of variants A and B: dollars per million tokens
formatPrice(price) ==
  LET pricePerToken == parseFloat(price)
      pricePerMillionTokens == Scale10(pricePerToken, 6)
  IN  IF ~pricePerToken.nan /\ pricePerToken.m < 0 THEN Str_NA
      ELSE <<"$">> \o toFixed(pricePerMillionTokens,
                              IF LessThanFraction(pricePerMillionTokens, 3) THEN 3
                              ELSE IF LessThanFraction(pricePerMillionTokens, 2) THEN 2
                              ELSE 1)

\* formatPrice of variant C: dollars per thousand tokens, no "N/A"
formatPricePerThousand(price) ==
  LET pricePerToken == parseFloat(price)
      pricePerThousandTokens == Scale10(pricePerToken, 3)
  IN  <<"$">> \o toFixed(pricePerThousandTokens,
                         IF LessThanFraction(pricePerThousandTokens, 3) THEN 6
                         ELSE IF LessThanFraction(pricePerThousandTokens, 2) THEN 5
                         ELSE 4)

capitalizeFirstLetter(string) ==
  IF Len(string) = 0 THEN <<>> ELSE <<UpperChar(string[1])>> \o SubSeq(string, 2, Len(string))

formatContextSize(size) ==
  IF size >= 1000000 THEN QuotientToString(size, 6) \o <<"M">>
  ELSE IF size >= 1000 THEN QuotientToString(size, 3) \o <<"K">>
  ELSE IntToString(size)

\* sizeStr.match(/(\d+)([KM])?/): the first run of digits and the K or M right after it
parseContextSize(sizeStr) ==
  IF \A i \in 1..Len(sizeStr) : ~IsDigit(sizeStr[i]) THEN 0
  ELSE LET first == CHOOSE i \in 1..Len(sizeStr) :
                      IsDigit(sizeStr[i]) /\ \A j \in 1..(i - 1) : ~IsDigit(sizeStr[j])
           n     == DigitRun(sizeStr, first)
           baseNum == DigitsValue(SubSeq(sizeStr, first, first + n - 1))
           unit  == IF first + n <= Len(sizeStr) THEN sizeStr[first + n] ELSE ""
       IN  IF unit = "K" THEN baseNum * 1000
           ELSE IF unit = "M" THEN baseNum * 1000000
           ELSE baseNum

Str_image == <<"i", "m", "a", "g", "e">>

Str_tools == <<"t", "o", "o", "l", "s">>

Str_function_call == <<"f", "u", "n", "c", "t", "i", "o", "n", "_", "c", "a", "l", "l">>

Str_multimodal == <<"m", "u", "l", "t", "i", "m", "o", "d", "a", "l">>

Str_Vision == <<"V", "i", "s", "i", "o", "n">>

Str_FunctionCalling == <<"F", "u", "n", "c", "t", "i", "o", "n", " ", "c", "a", "l", "l", "i", "n", "g">>

Str_LongContext == <<"L", "o", "n", "g", " ", "c", "o", "n", "t", "e", "x", "t">>

Str_Multimodal == <<"M", "u", "l", "t", "i", "m", "o", "d", "a", "l">>

extractFeatures(model) ==
  (IF arrayIncludes(model.input_modalities, Str_image) THEN <<Str_Vision>> ELSE <<>>)
  \o (IF arrayIncludes(model.supported_parameters, Str_tools)
         \/ arrayIncludes(model.supported_parameters, Str_function_call)
       THEN <<Str_FunctionCalling>> ELSE <<>>)
  \o (IF model.context_length >= 100000 THEN <<Str_LongContext>> ELSE <<>>)
  \o (IF model.modality = Str_multimodal THEN <<Str_Multimodal>> ELSE <<>>)

\* ------------------------------------------------------------------------
\* Bounds of the model
\* ------------------------------------------------------------------------

\* records of the long catalog
BigCatalogLen == 21

\* fetches started in one run: the one on mount and the manual refreshes
MaxFetches == 2

\* the rows a user pins: the first MaxPinIndex records of the catalog and the last
MaxPinIndex == 1

\* the time one Tick lets pass, in milliseconds
TickMs == 150

\* ------------------------------------------------------------------------
\* Responses of the catalog endpoint
\* ------------------------------------------------------------------------

Str_text == <<"t", "e", "x", "t">>

RawModel(id, name, description, context_length, modality, input_modalities, supported_parameters, prompt, completion, image, input_cache_read) ==
  [id |-> id, name |-> name, description |-> description,
   context_length |-> context_length, modality |-> modality,
   input_modalities |-> input_modalities,
   supported_parameters |-> supported_parameters,
   prompt |-> prompt, completion |-> completion, image |-> image,
   input_cache_read |-> input_cache_read, input_cache_write |-> <<>>]

\* "0.000001"
Price_1 == <<"0", ".", "0", "0", "0", "0", "0", "1">>

\* "0.000002"
Price_2 == <<"0", ".", "0", "0", "0", "0", "0", "2">>

\* "0.00001"
Price_10 == <<"0", ".", "0", "0", "0", "0", "1">>

\* "0.00002"
Price_20 == <<"0", ".", "0", "0", "0", "0", "2">>

\* "0.0000000001": positive, below every display precision
Price_tiny == <<"0", ".", "0", "0", "0", "0", "0", "0", "0", "0", "0", "1">>

\* a short catalog: two providers, a free record, a record without price
SmallCatalog ==
  << RawModel(<<"a", "/", "m", "1">>, <<"m", "1">>, <<"x">>, 1000, Str_text,
              <<Str_text>>, <<>>, Price_1, Price_2, Price_2, Price_1),
     RawModel(<<"b", "/", "m", "2">>, <<"M", "2">>, <<"a", "m">>, 2000000, Str_multimodal,
              <<Str_text, Str_image>>, <<Str_tools>>, Price_20, Price_20, Price_10, <<>>),
     RawModel(<<"a", "/", "f">>, <<"f", " ", "(", "f", "r", "e", "e", ")">>, <<>>, 1500000,
              Str_text, <<Str_text>>, <<>>, <<"0">>, <<"0">>, <<>>, <<>>),
     RawModel(<<"b", "/", "n">>, <<"n">>, <<>>, 128000, Str_text,
              <<Str_text>>, <<Str_function_call>>, <<"-", "1">>, <<"-", "1">>, <<>>, <<>>),
     RawModel(<<"b", "/", "t">>, <<"t">>, <<>>, 999, Str_text,
              <<Str_text>>, <<>>, Price_tiny, Price_1, <<>>, <<>>) >>

\* the i-th record of the long catalog
BigModel(i) ==
  RawModel(<<"c", "/">> \o IntToString(i), <<"g">> \o IntToString(i), <<>>, 1000 * i,
           Str_text, <<Str_text>>, <<>>,
           <<"0", ".", "0", "0", "0", "0", "0">> \o IntToString((3 * i) % 10),
           Price_1, <<>>, <<>>)

\* a long catalog: more records than one page
BigCatalog == [i \in 1..BigCatalogLen |-> BigModel(i)]

\* a later snapshot of the short catalog: a/m1 is still there, at another price, provider
\* b is gone and provider c is new
LaterCatalog ==
  << RawModel(<<"c", "/", "x">>, <<"x">>, <<>>, 4096, Str_text,
              <<Str_text>>, <<>>, Price_2, Price_2, <<>>, <<>>),
     RawModel(<<"a", "/", "m", "1">>, <<"m", "1">>, <<"x">>, 1000, Str_text,
              <<Str_text>>, <<>>, Price_2, Price_2, Price_2, Price_1) >>

\* raw prices as the endpoint may send them: zero in two spellings, values whose
\* per-million rate lies on either side of 0.001 and of 0.01 (0.0009, 0.0011, 0.0096,
\* 0.011), ordinary rates (1 and 2.5), a negative rate, a text that is no number, and
\* the empty text
RawPrices ==
  { <<"0">>,
    <<"0", ".", "0", "0">>,
    <<"0", ".", "0", "0", "0", "0", "0", "0", "0", "0", "0", "9">>,
    <<"0", ".", "0", "0", "0", "0", "0", "0", "0", "0", "1", "1">>,
    <<"0", ".", "0", "0", "0", "0", "0", "0", "0", "0", "9", "6">>,
    <<"0", ".", "0", "0", "0", "0", "0", "0", "0", "1", "1">>,
    Price_1,
    <<"0", ".", "0", "0", "0", "0", "0", "2", "5">>,
    <<"-", "1">>,
    <<"a", "b", "c">>,
    <<>> }

\* a record of provider p at the given price; image is the optional image and
\* cache-read price, empty when the endpoint sends none
PriceModel(i, price, image) ==
  RawModel(<<"p", "/">> \o IntToString(i), <<"p">> \o IntToString(i), <<>>, 1000,
           Str_text, <<Str_text>>, <<>>, price, price, image, image)

\* the catalogs of two records at any two raw prices, the first record without the
\* optional prices
PriceCatalogs == {<<PriceModel(1, p, <<>>), PriceModel(2, q, q)>> : p, q \in RawPrices}

\* a catalog of one paid record and three free ones: free by its name alone, by its
\* input price alone, by its output price alone
FreeCatalog ==
  << RawModel(<<"a", "/", "m", "1">>, <<"m", "1">>, <<>>, 1000, Str_text,
              <<Str_text>>, <<>>, Price_1, Price_2, <<>>, <<>>),
     RawModel(<<"a", "/", "x">>, <<"x", " ", "(", "f", "r", "e", "e", ")">>, <<>>, 1000,
              Str_text, <<Str_text>>, <<>>, Price_1, Price_2, <<>>, <<>>),
     RawModel(<<"b", "/", "i">>, <<"i">>, <<>>, 1000, Str_text,
              <<Str_text>>, <<>>, <<"0">>, Price_1, <<>>, <<>>),
     RawModel(<<"b", "/", "o">>, <<"o">>, <<>>, 1000, Str_text,
              <<Str_text>>, <<>>, Price_1, <<"0">>, <<>>, <<>>) >>

\* what a fetch can end in other than a catalog: a non-2xx status, a body that is no
\* JSON, a JSON body without the data list, a request the transport rejects
Failures == {"http", "json", "nodata", "network"}

HttpStatus == "500"

HttpStatusText == "Internal Server Error"

\* one message for every failure, without the response's status
ErrorMessageGeneric(failure) == <<"Failed to fetch models">>

\* the message of the error each failure raises, as a sequence of its parts
ErrorMessage(failure) ==
  IF failure = "http" THEN <<"Failed to fetch models: ", HttpStatus, " ", HttpStatusText>>
  ELSE IF failure = "json" THEN <<"Unexpected token < in JSON at position 0">>
  ELSE IF failure = "nodata" THEN <<"Cannot read properties of undefined (reading 'map')">>
  ELSE <<"Failed to fetch">>

\* ------------------------------------------------------------------------
\* Catalog Fetcher/Normalizer
\* ------------------------------------------------------------------------

Str_urlPrefix == <<"h", "t", "t", "p", "s", ":", "/", "/", "o", "p", "e", "n", "r", "o", "u",
                   "t", "e", "r", ".", "a", "i", "/", "m", "o", "d", "e", "l", "s", "/">>

\* the display record of variants A and B
transformModel(model) ==
  [id |-> model.id,
   name |-> model.name,
   url |-> Str_urlPrefix \o model.id,
   provider |-> capitalizeFirstLetter(split(model.id, "/")[1]),
   contextWindow |-> formatContextSize(model.context_length),
   inputCost |-> formatPrice(model.prompt),
   outputCost |-> formatPrice(model.completion),
   features |-> extractFeatures(model),
   keep |-> FALSE,
   description |-> model.description,
   modalities |-> model.input_modalities,
   input_cache_read |->
     IF Len(model.input_cache_read) > 0 THEN formatPrice(model.input_cache_read) ELSE Str_NA,
   input_cache_write |->
     IF Len(model.input_cache_write) > 0 THEN formatPrice(model.input_cache_write) ELSE Str_NA,
   imageCost |-> IF Len(model.image) > 0 THEN formatPrice(model.image) ELSE Str_NA]

\* the display record of variant C, which has no image and cache costs (the fields are
\* kept, empty, so that all records have one shape)
transformModelC(model) ==
  [id |-> model.id,
   name |-> model.name,
   url |-> Str_urlPrefix \o model.id,
   provider |-> capitalizeFirstLetter(split(model.id, "/")[1]),
   contextWindow |-> formatContextSize(model.context_length),
   inputCost |-> formatPricePerThousand(model.prompt),
   outputCost |-> formatPricePerThousand(model.completion),
   features |-> extractFeatures(model),
   keep |-> FALSE,
   description |-> model.description,
   modalities |-> model.input_modalities,
   input_cache_read |-> <<>>,
   input_cache_write |-> <<>>,
   imageCost |-> <<>>]

transformedData(v, data) ==
  [i \in 1..Len(data) |-> IF v = "C" THEN transformModelC(data[i]) ELSE transformModel(data[i])]

VARIABLES
  variant,               \* which PricingTable component is mounted
  modelData,             \* the catalog: a sequence of display records
  searchQuery,           \* the text of the search input
  debouncedSearchQuery,  \* the text the filter uses
  timer,                 \* the debounce timeout: <<>> or <<[rem, val]>>
  sortConfig,            \* [key, direction]
  activeFilters,         \* the selected providers, in selection order
  filterOutFree,         \* hide-free
  isLoading,             \* isLoading (B, C), fetching (A)
  error,                 \* <<>> for null, or <<message>>
  lastUpdated,           \* <<>> for none, or <<stamp>>
  displayLimit,
  inflight,              \* fetches started and not completed
  fetchCount,            \* fetches started so far; the clock of lastUpdated
  lastOp                 \* history: the last operation, the limit and the pins before it

vars == <<variant, modelData, searchQuery, debouncedSearchQuery, timer, sortConfig,
          activeFilters, filterOutFree, isLoading, error, lastUpdated, displayLimit,
          inflight, fetchCount, lastOp>>

\* ------------------------------------------------------------------------
\* Query Engine, Sort Engine, Pagination Window: derived on every render
\* ------------------------------------------------------------------------

MODELS_PER_PAGE == IF variant = "C" THEN 10 ELSE 15

DEBOUNCE_MS == 300

Str_free == <<"(", "f", "r", "e", "e", ")">>

isZero(n) == ~n.nan /\ n.m = 0

\* Number.parseFloat(cost.replace("$", "")) === 0
costIsZero(cost) == isZero(parseFloat(replaceFirst(cost, "$")))

\* a text rule that leaves descriptions out in every component
matchesSearchWithoutDescription(model) ==
  LET searchTerms == split(debouncedSearchQuery, " ")
      nameLower == toLowerCase(model.name)
      allTermsMatch ==
        \A t \in 1..Len(searchTerms) : includes(nameLower, toLowerCase(searchTerms[t]))
      searchLower == toLowerCase(debouncedSearchQuery)
  IN  \/ IF variant = "C" THEN includes(nameLower, searchLower) ELSE allTermsMatch
      \/ includes(toLowerCase(model.provider), searchLower)
      \/ /\ variant # "C"
         /\ \E i \in 1..Len(model.modalities) :
              includes(toLowerCase(model.modalities[i]), searchLower)
      \/ \E i \in 1..Len(model.features) :
           includes(toLowerCase(model.features[i]), searchLower)

matchesSearch(model) ==
  LET searchTerms == split(debouncedSearchQuery, " ")
      nameLower == toLowerCase(model.name)
      allTermsMatch ==
        \A t \in 1..Len(searchTerms) : includes(nameLower, toLowerCase(searchTerms[t]))
      searchLower == toLowerCase(debouncedSearchQuery)
  IN  \/ IF variant = "C" THEN includes(nameLower, searchLower) ELSE allTermsMatch
      \/ includes(toLowerCase(model.provider), searchLower)
      \/ /\ variant # "C"
         /\ \E i \in 1..Len(model.modalities) :
              includes(toLowerCase(model.modalities[i]), searchLower)
      \/ variant = "B" /\ includes(toLowerCase(model.description), searchLower)
      \/ \E i \in 1..Len(model.features) :
           includes(toLowerCase(model.features[i]), searchLower)

\* a provider rule that lets every record pass
matchesAnyProvider(model) == TRUE

matchesProviderFilter(model) ==
  Len(activeFilters) = 0 \/ arrayIncludes(activeFilters, model.provider)

\* a free test that looks at the name only
isFreeByName(model) == includes(model.name, Str_free)

isFree(model) ==
  \/ includes(model.name, Str_free)
  \/ costIsZero(model.inputCost)
  \/ costIsZero(model.outputCost)

matchesFreeFilter(model) == variant = "C" \/ ~filterOutFree \/ ~isFree(model)

\* the filter callback without its first line
passesFilterIgnoringKeep(model) ==
  matchesSearch(model) /\ matchesProviderFilter(model) /\ matchesFreeFilter(model)

\* the predicate of modelData.filter
passesFilter(model) ==
  \/ model.keep
  \/ matchesSearch(model) /\ matchesProviderFilter(model) /\ matchesFreeFilter(model)

filteredModels == SelectSeq(modelData, passesFilter)

\* the collation key of a character in the root collation: white space, punctuation,
\* symbols, currency, digits, letters
CollationOrder == <<" ", "_", "-", ":", ".", "(", ")", "/", "+", "<", "$">>

CollationRankOf ==
  [c \in Chars |->
     IF DigitOf[c] >= 0 THEN 20 + DigitOf[c]
     ELSE IF LowerOf[c] > 0 THEN 40 + LowerOf[c]
     ELSE IF UpperOf[c] > 0 THEN 40 + UpperOf[c]
     ELSE CHOOSE i \in 1..Len(CollationOrder) : CollationOrder[i] = c]

CollationRank(c) == CollationRankOf[c]

\* the sign of the first difference of two sequences of integers; a proper prefix is less
RECURSIVE CompareKeys(_, _)
CompareKeys(a, b) ==
  IF Len(a) = 0 THEN (IF Len(b) = 0 THEN 0 ELSE -1)
  ELSE IF Len(b) = 0 THEN 1
  ELSE IF a[1] < b[1] THEN -1
  ELSE IF a[1] > b[1] THEN 1
  ELSE CompareKeys(Tail(a), Tail(b))

OrElse(primary, tertiary) == IF primary # 0 THEN primary ELSE tertiary

\* String.prototype.localeCompare in the root collation: the letters and signs first,
\* and between strings equal in those, lower case before upper case
localeCompare(a, b) ==
  OrElse(CompareKeys([i \in 1..Len(a) |-> CollationRank(a[i])],
                     [i \in 1..Len(b) |-> CollationRank(b[i])]),
         CompareKeys([i \in 1..Len(a) |-> IF IsUpper(a[i]) THEN 1 ELSE 0],
                     [i \in 1..Len(b) |-> IF IsUpper(b[i]) THEN 1 ELSE 0]))

\* typeof aValue === "string": the fields of a display record that hold a string and
\* are not handled before (keep is a boolean, features and modalities are arrays)
StringKeys == {"name", "provider", "imageCost", "input_cache_read", "input_cache_write",
               "id", "url", "description"}

\* a - b of two numbers: its sign, or NaN
Subtract(a, b) == IF a.nan \/ b.nan THEN NaN ELSE Num(CompareNum(a, b), 0)

SubtractPair(n) == Subtract(n[1], n[2])

Negate(x) == IF x.nan THEN NaN ELSE Num(0 - x.m, 0)

\* the number the comparator makes of a record under a numeric sort key
numericValue(model, key) ==
  IF key = "contextWindow" THEN Num(parseContextSize(model.contextWindow), 0)
  ELSE parseFloat(replaceFirst(model[key], "$"))

\* a comparison that falls back to the names under a key it does not handle
compareByKeyThenName(pair, key) ==
  IF key = "keep" THEN Num(0, 0)
  ELSE IF key \in {"inputCost", "outputCost", "contextWindow"}
    THEN SubtractPair([i \in 1..2 |-> numericValue(pair[i], key)])
  ELSE IF key \in StringKeys THEN Num(localeCompare(pair[1][key], pair[2][key]), 0)
  ELSE Num(localeCompare(pair[1].name, pair[2].name), 0)

\* the comparison by the active sort key, in ascending direction
compareByKey(pair, key) ==
  IF key = "keep" THEN Num(0, 0)
  ELSE IF key \in {"inputCost", "outputCost", "contextWindow"}
    THEN SubtractPair([i \in 1..2 |-> numericValue(pair[i], key)])
  ELSE IF key \in StringKeys THEN Num(localeCompare(pair[1][key], pair[2][key]), 0)
  ELSE Num(0, 0)

\* the descending branches of the comparator swap the operands: the difference and
\* localeCompare change sign with them
directed(x) == IF sortConfig.direction = "ascending" THEN x ELSE Negate(x)

\* the comparator without its first two lines
compareModelsByKeyOnly(a, b) == directed(compareByKey(<<a, b>>, sortConfig.key))

\* the comparator handed to Array.prototype.sort: a number, possibly NaN
compareModels(a, b) ==
  IF a.keep /\ ~b.keep THEN Num(-1, 0)
  ELSE IF ~a.keep /\ b.keep THEN Num(1, 0)
  ELSE directed(compareByKey(<<a, b>>, sortConfig.key))

NaNToZero(v) == IF v.nan THEN 0 ELSE v.m

\* what Array.prototype.sort makes of the comparator's result: NaN counts as 0
order(a, b) == NaNToZero(compareModels(a, b))

\* Array.prototype.sort for arrays shorter than 64 (V8): the run the array starts with,
\* reversed when strictly descending, then binary insertion of the other elements
RunEnds(o, isDescending) == (isDescending /\ o >= 0) \/ (~isDescending /\ o < 0)

RECURSIVE ExtendRun(_, _, _)
ExtendRun(arr, idx, isDescending) ==
  IF idx > Len(arr) THEN idx - 1
  ELSE IF RunEnds(order(arr[idx], arr[idx - 1]), isDescending) THEN idx - 1
  ELSE ExtendRun(arr, idx + 1, isDescending)

Reverse(arr) == [i \in 1..Len(arr) |-> arr[Len(arr) + 1 - i]]

MakeRun(arr, n, isDescending) ==
  [run |-> n,
   arr |-> IF isDescending THEN Reverse(SubSeq(arr, 1, n)) \o SubSeq(arr, n + 1, Len(arr))
           ELSE arr]

CountRun(arr, isDescending) == MakeRun(arr, ExtendRun(arr, 3, isDescending), isDescending)

CountAndMakeRun(arr) ==
  IF Len(arr) < 2 THEN [run |-> Len(arr), arr |-> arr]
  ELSE CountRun(arr, order(arr[2], arr[1]) < 0)

\* the place of pivot among arr[left .. right - 1]
RECURSIVE BinarySearch(_, _, _, _)
BinarySearch(arr, pivot, left, right) ==
  IF left >= right THEN left
  ELSE IF order(pivot, arr[left + ((right - left) \div 2)]) < 0
    THEN BinarySearch(arr, pivot, left, left + ((right - left) \div 2))
  ELSE BinarySearch(arr, pivot, left + ((right - left) \div 2) + 1, right)

\* arr with arr[start] moved to place left
MoveTo(arr, start, left) ==
  SubSeq(arr, 1, left - 1) \o <<arr[start]>> \o SubSeq(arr, left, start - 1)
    \o SubSeq(arr, start + 1, Len(arr))

\* arr with arr[start] moved to its place among arr[1 .. start - 1]
InsertNext(arr, start) == MoveTo(arr, start, BinarySearch(arr, arr[start], 1, start))

RECURSIVE BinaryInsertionSort(_, _)
BinaryInsertionSort(arr, start) ==
  IF start > Len(arr) THEN arr
  ELSE BinaryInsertionSort(InsertNext(arr, start), start + 1)

SortFromRun(r) == BinaryInsertionSort(r.arr, r.run + 1)

ArraySort(arr) == SortFromRun(CountAndMakeRun(arr))

sortedModels == ArraySort(filteredModels)

\* a slice that takes the element at end too
sliceThrough(arr, end) == SubSeq(arr, 1, Min(end + 1, Len(arr)))

\* Array.prototype.slice(0, end)
slice0(arr, end) ==
  LET to == IF end < 0 THEN Max(Len(arr) + end, 0) ELSE Min(end, Len(arr))
  IN  SubSeq(arr, 1, to)

displayedModels == slice0(sortedModels, displayLimit)

hasMoreModels == Len(sortedModels) > displayLimit

\* Array.from(new Set(...)): the distinct elements in order of first occurrence
RECURSIVE Distinct(_)
Distinct(arr) ==
  IF Len(arr) = 0 THEN <<>>
  ELSE LET front == Distinct(SubSeq(arr, 1, Len(arr) - 1))
           x == arr[Len(arr)]
       IN  IF arrayIncludes(front, x) THEN front ELSE Append(front, x)

providers == Distinct([i \in 1..Len(modelData) |-> modelData[i].provider])

\* ------------------------------------------------------------------------
\* The component: state after mount, and one action per handler
\* ------------------------------------------------------------------------

\* the controls are disabled, and no row is rendered, while isLoading (B, C)
Interactive == variant = "A" \/ ~isLoading

NoTimer == <<>>

\* the debounce effect without its cleanup: a pending timeout stays
armTimerKeepingPending(old, value) ==
  IF old # NoTimer THEN old ELSE <<[rem |-> DEBOUNCE_MS, val |-> value]>>

\* setTimeout(() => setDebouncedSearchQuery(value), 300), after clearTimeout of the
\* timeout before it (A, B)
armTimer(old, value) == <<[rem |-> DEBOUNCE_MS, val |-> value]>>

\* useDebounce(searchQuery, 300) (C): the value is handed on once it has not changed
\* for the delay
useDebounce(old, value) == <<[rem |-> DEBOUNCE_MS, val |-> value]>>

\* the debounce effect after a render in which searchQuery changed
debounce(old, value) ==
  IF variant = "C" THEN useDebounce(old, value) ELSE armTimer(old, value)

\* the reset effect left out
keepDisplayLimit(changed, prev) == prev

\* useEffect(() => setDisplayLimit(MODELS_PER_PAGE), [debouncedSearchQuery,
\* activeFilters, filterOutFree]): changed says that a dependency is a new value
resetDisplayLimit(changed, prev) == IF changed THEN MODELS_PER_PAGE ELSE prev

pinnedIds == {modelData[i].id : i \in {j \in 1..Len(modelData) : modelData[j].keep}}

pinned == Cardinality(pinnedIds)

\* history of the last operation: its name and the display limit before it; a fetch
\* also records the pins before it and, when it succeeds, the response it received; a
\* change of the search text records whether it replaced a pending text never
\* committed, requestSort the key it was called with, a failed fetch what it failed with
History(op) == [op |-> op, limit |-> displayLimit, pins |-> {}, superseded |-> FALSE, response |-> <<>>, key |-> "", failure |-> ""]

\* a change of the search text replaces a pending text that was never committed
supersedes ==
  /\ timer # NoTimer
  /\ \/ timer[1].val # debouncedSearchQuery
     \/ lastOp.op \in {"setSearchQuery", "clearFilters"} /\ lastOp.superseded

Init ==
  /\ variant \in {"A", "B", "C"}
  /\ modelData = <<>>
  /\ searchQuery = <<>>
  /\ debouncedSearchQuery = <<>>
  /\ timer = debounce(NoTimer, <<>>)
  /\ sortConfig = [key |-> "inputCost", direction |-> "ascending"]
  /\ activeFilters = <<>>
  /\ filterOutFree = FALSE
  /\ isLoading = TRUE
  /\ error = <<>>
  /\ lastUpdated = <<>>
  /\ displayLimit = MODELS_PER_PAGE
  /\ inflight = 1
  /\ fetchCount = 1
  /\ lastOp = History("mount")

\* onChange of the search input, and the debounce effect that follows the render
SetSearchQuery(text) ==
  /\ Interactive
  /\ text # searchQuery
  /\ searchQuery' = text
  /\ timer' = debounce(timer, text)
  /\ lastOp' = [History("setSearchQuery") EXCEPT !.superseded = supersedes]
  /\ UNCHANGED <<variant, modelData, debouncedSearchQuery, sortConfig, activeFilters,
                 filterOutFree, isLoading, error, lastUpdated, displayLimit, inflight,
                 fetchCount>>

\* time passes
Tick ==
  /\ timer # NoTimer
  /\ timer[1].rem > 0
  /\ timer' = <<[timer[1] EXCEPT !.rem = Max(0, timer[1].rem - TickMs)]>>
  /\ UNCHANGED <<variant, modelData, searchQuery, debouncedSearchQuery, sortConfig,
                 activeFilters, filterOutFree, isLoading, error, lastUpdated, displayLimit,
                 inflight, fetchCount, lastOp>>

\* the timeout fires: setDebouncedSearchQuery, and the display-limit effect when the
\* debounced text changed
DebounceFire ==
  /\ timer # NoTimer
  /\ timer[1].rem = 0
  /\ debouncedSearchQuery' = timer[1].val
  /\ timer' = NoTimer
  /\ displayLimit' = resetDisplayLimit(timer[1].val # debouncedSearchQuery, displayLimit)
  /\ lastOp' = [History("debounce") EXCEPT
                  !.superseded = lastOp.op \in {"setSearchQuery", "clearFilters"}
                                   /\ lastOp.superseded]
  /\ UNCHANGED <<variant, modelData, searchQuery, sortConfig, activeFilters,
                 filterOutFree, isLoading, error, lastUpdated, inflight, fetchCount>>

toggled(prev, provider) ==
  IF arrayIncludes(prev, provider) THEN SelectSeq(prev, LAMBDA p : p # provider)
  ELSE Append(prev, provider)

toggleProviderFilter(provider) ==
  /\ Interactive
  /\ arrayIncludes(providers, provider)
  /\ activeFilters' = toggled(activeFilters, provider)
  /\ displayLimit' = resetDisplayLimit(TRUE, displayLimit)
  /\ lastOp' = History("toggleProviderFilter")
  /\ UNCHANGED <<variant, modelData, searchQuery, debouncedSearchQuery, timer, sortConfig,
                 filterOutFree, isLoading, error, lastUpdated, inflight, fetchCount>>

\* the Hide Free button (A, B)
ToggleFilterOutFree ==
  /\ variant # "C"
  /\ Interactive
  /\ filterOutFree' = ~filterOutFree
  /\ displayLimit' = resetDisplayLimit(TRUE, displayLimit)
  /\ lastOp' = History("toggleFilterOutFree")
  /\ UNCHANGED <<variant, modelData, searchQuery, debouncedSearchQuery, timer, sortConfig,
                 activeFilters, isLoading, error, lastUpdated, inflight, fetchCount>>

\* the Clear button (B: also while loading; C: disabled while loading; A has none)
clearFilters ==
  /\ \/ variant = "B" /\ (Len(activeFilters) > 0 \/ Len(searchQuery) > 0 \/ filterOutFree)
     \/ variant = "C" /\ (Len(activeFilters) > 0 \/ Len(searchQuery) > 0) /\ ~isLoading
  /\ activeFilters' = <<>>
  /\ searchQuery' = <<>>
  /\ filterOutFree' = FALSE
  /\ timer' = IF searchQuery # <<>> THEN debounce(timer, <<>>) ELSE timer
  /\ displayLimit' = resetDisplayLimit(TRUE, displayLimit)
  /\ lastOp' = [History("clearFilters") EXCEPT
                  !.superseded = searchQuery # <<>> /\ supersedes]
  /\ UNCHANGED <<variant, modelData, debouncedSearchQuery, sortConfig, isLoading, error,
                 lastUpdated, inflight, fetchCount>>

\* a requestSort that never toggles the direction
nextSortConfigAscending(key) == [key |-> key, direction |-> "ascending"]

nextSortConfig(key) ==
  [key |-> key,
   direction |-> IF sortConfig.key = key /\ sortConfig.direction = "ascending"
                 THEN "descending" ELSE "ascending"]

\* requestSort as it would be with sortConfig among the reset effect's dependencies
requestSortResettingLimit(key) ==
  /\ Interactive
  /\ sortConfig' = nextSortConfig(key)
  /\ displayLimit' = MODELS_PER_PAGE
  /\ lastOp' = [History("requestSort") EXCEPT !.key = key]
  /\ UNCHANGED <<variant, modelData, searchQuery, debouncedSearchQuery, timer,
                 activeFilters, filterOutFree, isLoading, error, lastUpdated, inflight,
                 fetchCount>>

requestSort(key) ==
  /\ Interactive
  /\ sortConfig' = nextSortConfig(key)
  /\ lastOp' = [History("requestSort") EXCEPT !.key = key]
  /\ UNCHANGED <<variant, modelData, searchQuery, debouncedSearchQuery, timer,
                 activeFilters, filterOutFree, isLoading, error, lastUpdated, displayLimit,
                 inflight, fetchCount>>

keepToggled(prev, id) ==
  [i \in 1..Len(prev) |-> IF prev[i].id = id THEN [prev[i] EXCEPT !.keep = ~prev[i].keep]
                          ELSE prev[i]]

idsOf(arr) == {arr[i].id : i \in 1..Len(arr)}

\* the checkbox of a displayed row
toggleKeep(id) ==
  /\ Interactive
  /\ id \in idsOf(displayedModels)
  /\ modelData' = keepToggled(modelData, id)
  /\ lastOp' = History("toggleKeep")
  /\ UNCHANGED <<variant, searchQuery, debouncedSearchQuery, timer, sortConfig,
                 activeFilters, filterOutFree, isLoading, error, lastUpdated, displayLimit,
                 inflight, fetchCount>>

\* a limit that grows by one row
nextDisplayLimitByOne(prev) == prev + 1

nextDisplayLimit(prev) == prev + MODELS_PER_PAGE

\* the Load More button rendered unconditionally
loadMoreAlwaysRendered == TRUE

\* {hasMoreModels && (... <Button onClick={loadMoreModels}> ...)}
loadMoreRendered == hasMoreModels

\* a click on the Load More button
loadMoreModels ==
  /\ Interactive
  /\ loadMoreRendered
  /\ displayLimit' = nextDisplayLimit(displayLimit)
  /\ lastOp' = History("loadMoreModels")
  /\ UNCHANGED <<variant, modelData, searchQuery, debouncedSearchQuery, timer, sortConfig,
                 activeFilters, filterOutFree, isLoading, error, lastUpdated, inflight,
                 fetchCount>>

\* the refresh button without disabled={isLoading}
refreshAlwaysEnabled == TRUE

\* disabled={isLoading} of the refresh button
refreshEnabled == ~isLoading

\* a fetchModels without setError(null)
RefreshKeepingError ==
  /\ variant # "A"
  /\ refreshEnabled
  /\ fetchCount < MaxFetches
  /\ isLoading' = TRUE
  /\ error' = error
  /\ inflight' = inflight + 1
  /\ fetchCount' = fetchCount + 1
  /\ lastOp' = History("refresh")
  /\ UNCHANGED <<variant, modelData, searchQuery, debouncedSearchQuery, timer, sortConfig,
                 activeFilters, filterOutFree, lastUpdated, displayLimit>>

\* a fetchModels that does not set the loading flag
RefreshWithoutLoadingFlag ==
  /\ variant # "A"
  /\ refreshEnabled
  /\ fetchCount < MaxFetches
  /\ isLoading' = isLoading
  /\ error' = <<>>
  /\ inflight' = inflight + 1
  /\ fetchCount' = fetchCount + 1
  /\ lastOp' = History("refresh")
  /\ UNCHANGED <<variant, modelData, searchQuery, debouncedSearchQuery, timer, sortConfig,
                 activeFilters, filterOutFree, lastUpdated, displayLimit>>

\* the refresh button (B, C): fetchModels up to its first await
Refresh ==
  /\ variant # "A"
  /\ refreshEnabled
  /\ fetchCount < MaxFetches
  /\ isLoading' = TRUE
  /\ error' = <<>>
  /\ inflight' = inflight + 1
  /\ fetchCount' = fetchCount + 1
  /\ lastOp' = History("refresh")
  /\ UNCHANGED <<variant, modelData, searchQuery, debouncedSearchQuery, timer, sortConfig,
                 activeFilters, filterOutFree, lastUpdated, displayLimit>>

\* the stamp new Date() gives when the fetch started as number fetchCount completes
Now == <<fetchCount>>

\* the pins of prev carried over to the records of next with the same id
keepCarried(prev, next) ==
  [i \in 1..Len(next) |->
     [next[i] EXCEPT !.keep = \E j \in 1..Len(prev) : prev[j].id = next[i].id /\ prev[j].keep]]

\* a fetch that merges the response into the catalog
FetchSuccessKeepingPins(data) ==
  /\ inflight > 0
  /\ modelData' = keepCarried(modelData, transformedData(variant, data))
  /\ lastUpdated' = Now
  /\ displayLimit' = IF variant = "A" THEN displayLimit ELSE MODELS_PER_PAGE
  /\ isLoading' = FALSE
  /\ inflight' = inflight - 1
  /\ lastOp' = [History("fetchSuccess") EXCEPT !.pins = pinnedIds, !.response = data]
  /\ UNCHANGED <<variant, searchQuery, debouncedSearchQuery, timer, sortConfig,
                 activeFilters, filterOutFree, error, fetchCount>>

\* the response is ok and its body is a catalog: the rest of fetchModels' try block and
\* its finally (B, C); the then and finally callbacks of the mount effect (A)
FetchSuccess(data) ==
  /\ inflight > 0
  /\ modelData' = transformedData(variant, data)
  /\ lastUpdated' = Now
  /\ displayLimit' = IF variant = "A" THEN displayLimit ELSE MODELS_PER_PAGE
  /\ isLoading' = FALSE
  /\ inflight' = inflight - 1
  /\ lastOp' = [History("fetchSuccess") EXCEPT !.pins = pinnedIds, !.response = data]
  /\ UNCHANGED <<variant, searchQuery, debouncedSearchQuery, timer, sortConfig,
                 activeFilters, filterOutFree, error, fetchCount>>

\* a catch block that also empties the catalog
FetchFailClearingCatalog(failure) ==
  /\ inflight > 0
  /\ modelData' = <<>>
  /\ error' = <<ErrorMessage(failure)>>
  /\ lastUpdated' = IF variant = "A" THEN Now ELSE lastUpdated
  /\ isLoading' = FALSE
  /\ inflight' = inflight - 1
  /\ lastOp' = [History("fetchFail") EXCEPT !.pins = pinnedIds, !.failure = failure]
  /\ UNCHANGED <<variant, searchQuery, debouncedSearchQuery, timer, sortConfig,
                 activeFilters, filterOutFree, displayLimit, fetchCount>>

\* a failure path without the finally block: the loading flag stays set
FetchFailStillLoading(failure) ==
  /\ inflight > 0
  /\ error' = <<ErrorMessage(failure)>>
  /\ lastUpdated' = IF variant = "A" THEN Now ELSE lastUpdated
  /\ isLoading' = isLoading
  /\ inflight' = inflight - 1
  /\ lastOp' = [History("fetchFail") EXCEPT !.pins = pinnedIds, !.failure = failure]
  /\ UNCHANGED <<variant, modelData, searchQuery, debouncedSearchQuery, timer, sortConfig,
                 activeFilters, filterOutFree, displayLimit, fetchCount>>

\* the fetch throws: catch and finally
FetchFail(failure) ==
  /\ inflight > 0
  /\ error' = <<ErrorMessage(failure)>>
  /\ lastUpdated' = IF variant = "A" THEN Now ELSE lastUpdated
  /\ isLoading' = FALSE
  /\ inflight' = inflight - 1
  /\ lastOp' = [History("fetchFail") EXCEPT !.pins = pinnedIds, !.failure = failure]
  /\ UNCHANGED <<variant, modelData, searchQuery, debouncedSearchQuery, timer, sortConfig,
                 activeFilters, filterOutFree, displayLimit, fetchCount>>

\* ------------------------------------------------------------------------
\* Specifications.  Each one explores all three variants from the state after mount
\* and draws the inputs of one part of the component from wider sets.
\* ------------------------------------------------------------------------

\* the records whose checkbox is clicked: the first MaxPinIndex of the catalog and the last
PinCandidates ==
  {modelData[i].id : i \in {j \in 1..Len(modelData) : j <= MaxPinIndex \/ j = Len(modelData)}}

AllIds == idsOf(modelData)

\* the fetch on mount, the manual refreshes and what they end in; pins and provider
\* filters across snapshots
Next ==
  \/ Refresh
  \/ \E data \in {SmallCatalog, LaterCatalog} : FetchSuccess(data)
  \/ \E failure \in Failures : FetchFail(failure)
  \/ \E id \in PinCandidates : toggleKeep(id)
  \/ \E i \in 1..Len(providers) : toggleProviderFilter(providers[i])

Spec == Init /\ [][Next]_vars

\* the transport answers or fails: the fetch in flight completes
FetchCompletes ==
  \/ \E failure \in Failures : FetchFail(failure)
  \/ \E data \in {SmallCatalog, LaterCatalog} : FetchSuccess(data)

\* the same runs, in which the transport answers every request sooner or later
SpecFair == Init /\ [][Next]_vars /\ WF_vars(FetchCompletes)

\* the texts typed into the search input
SearchTexts == {<<>>, <<"m">>, <<"m", " ", "2">>, <<"a", "m">>, Str_image}

\* the query engine: search text and debounce, provider filter, hide-free, pins
NextQuery ==
  \/ \E data \in {SmallCatalog} : FetchSuccess(data)
  \/ \E failure \in {"http"} : FetchFail(failure)
  \/ \E text \in SearchTexts : SetSearchQuery(text)
  \/ Tick
  \/ DebounceFire
  \/ \E i \in 1..Len(providers) : toggleProviderFilter(providers[i])
  \/ ToggleFilterOutFree
  \/ clearFilters
  \/ \E id \in PinCandidates : toggleKeep(id)

SpecQuery == Init /\ [][NextQuery]_vars

\* the keys requestSort is called with: columns of the table head
SortKeys ==
  IF variant = "C" THEN {"keep", "name", "provider", "contextWindow", "inputCost", "features"}
  ELSE {"keep", "name", "provider", "contextWindow", "inputCost", "imageCost", "modalities",
        "features"}

\* the sort engine: every sort key and direction over every set of pins
NextSort ==
  \/ \E data \in {SmallCatalog} : FetchSuccess(data)
  \/ \E key \in SortKeys : requestSort(key)
  \/ \E id \in AllIds : toggleKeep(id)
  \/ ToggleFilterOutFree

SpecSort == Init /\ [][NextSort]_vars

\* the last record of the catalog
LastId == {modelData[i].id : i \in {Len(modelData)} \ {0}}

\* the pagination window over the long catalog, and what resets it
NextPage ==
  \/ \E data \in {BigCatalog} : FetchSuccess(data)
  \/ loadMoreModels
  \/ \E text \in {<<"g">>} : SetSearchQuery(text)
  \/ Tick
  \/ DebounceFire
  \/ \E i \in 1..Len(providers) : toggleProviderFilter(providers[i])
  \/ ToggleFilterOutFree
  \/ clearFilters
  \/ \E key \in {"inputCost"} : requestSort(key)
  \/ \E id \in LastId : toggleKeep(id)

SpecPage == Init /\ [][NextPage]_vars

\* hide-free over a catalog of free records, with pins and provider filters
NextFree ==
  \/ \E data \in {FreeCatalog} : FetchSuccess(data)
  \/ ToggleFilterOutFree
  \/ \E id \in AllIds : toggleKeep(id)
  \/ \E i \in 1..Len(providers) : toggleProviderFilter(providers[i])

SpecFree == Init /\ [][NextFree]_vars

\* the user's operations after fetches that succeed and fail, on the long catalog
NextError ==
  \/ Refresh
  \/ \E data \in {BigCatalog} : FetchSuccess(data)
  \/ \E failure \in {"http"} : FetchFail(failure)
  \/ \E text \in {<<>>, <<"g">>} : SetSearchQuery(text)
  \/ \E key \in {"inputCost"} : requestSort(key)
  \/ \E id \in LastId : toggleKeep(id)
  \/ \E i \in 1..Len(providers) : toggleProviderFilter(providers[i])
  \/ loadMoreModels

SpecError == Init /\ [][NextError]_vars

\* fetches of catalogs at all pairs of raw prices
NextPrices ==
  \/ Refresh
  \/ \E data \in PriceCatalogs : FetchSuccess(data)
  \/ \E failure \in Failures : FetchFail(failure)

SpecPrices == Init /\ [][NextPrices]_vars

\* ------------------------------------------------------------------------
\* Properties
\* ------------------------------------------------------------------------

\* C1: in every reachable state every catalog record whose keep flag is true is in the
\* filtered result, whatever the debounced search text, the selected providers and the
\* hide-free flag are
C1_PinnedPassFilter ==
  \A i \in 1..Len(modelData) :
    modelData[i].keep => modelData[i].id \in idsOf(filteredModels)

\* a pinned record that the search text, the provider filter or hide-free would drop
C1_Witness ==
  \E i \in 1..Len(modelData) :
    /\ modelData[i].keep
    /\ ~matchesSearch(modelData[i])
    /\ ~matchesProviderFilter(modelData[i])
    /\ \E j \in 1..Len(modelData) : modelData[j].keep /\ ~matchesFreeFilter(modelData[j])

\* no record with keep = false stands before a record with keep = true
PinnedFirst(arr) ==
  \A i \in 1..Len(arr) : \A j \in 1..Len(arr) : (i < j /\ arr[j].keep) => arr[i].keep

\* the ids of the records of arr that are pinned, and of those that are not
PartitionIds(arr) ==
  <<{arr[i].id : i \in {j \in 1..Len(arr) : arr[j].keep}},
    {arr[i].id : i \in {j \in 1..Len(arr) : ~arr[j].keep}}>>

\* C2: in the sorted view, for every sort key and both directions, no record with
\* keep = false is placed before a record with keep = true, and requestSort changes
\* only the order inside each pin partition: under every sort configuration the pinned
\* records of the view are the pinned records that pass the filter and the others are
\* the others, and requestSort changes nothing the filter reads
C2_PinnedFirst ==
  /\ [](LET view == sortedModels
        IN  /\ PinnedFirst(view)
            /\ Len(view) = Len(filteredModels)
            /\ PartitionIds(view) = PartitionIds(filteredModels))
  /\ [][sortConfig' # sortConfig =>
          UNCHANGED <<variant, modelData, debouncedSearchQuery, activeFilters,
                      filterOutFree>>]_vars

\* after requestSort a pinned record stands before a record the sort key and direction
\* alone would place before it
C2_Witness ==
  /\ lastOp.op = "requestSort"
  /\ sortConfig.direction = "descending"
  /\ \E i \in 1..Len(sortedModels) : \E j \in 1..Len(sortedModels) :
       /\ i < j
       /\ sortedModels[i].keep
       /\ ~sortedModels[j].keep
       /\ order(sortedModels[i], sortedModels[j]) < 0
       /\ NaNToZero(compareModelsByKeyOnly(sortedModels[i], sortedModels[j])) > 0

\* C3: when a fetch (on mount or by refresh) fails, the catalog after the failure is the
\* catalog before the fetch started, with the same keep flags, and the error message is
\* set to a non-empty value
C3_FailedFetchKeepsCatalog ==
  [][/\ (inflight > 0 /\ inflight' >= inflight) => modelData' = modelData
     /\ (\E failure \in Failures : FetchFail(failure)) =>
          /\ modelData' = modelData
          /\ Len(error') = 1
          /\ \E k \in 1..Len(error'[1]) : error'[1][k] # ""]_vars

\* a refresh of a catalog with a pinned record has failed
C3_Witness ==
  /\ lastOp.op = "fetchFail"
  /\ fetchCount > 1
  /\ pinned > 0
  /\ lastOp.pins = pinnedIds
  /\ error # <<>>

\* the catalog without its keep flags
Unpinned(arr) == [i \in 1..Len(arr) |-> [arr[i] EXCEPT !.keep = FALSE]]

\* C4: a successful fetch replaces the whole catalog in one step by the records built
\* from the response, each with keep = false, also when a record of the same id was
\* pinned before, and in no state is the catalog a mix of the records of two responses
C4_SuccessReplacesCatalog ==
  /\ [](\E data \in {<<>>, SmallCatalog, LaterCatalog} :
          Unpinned(modelData) = transformedData(variant, data))
  /\ [][(inflight' < inflight /\ error' = <<>>) =>
          /\ \E data \in {SmallCatalog, LaterCatalog} :
               modelData' = transformedData(variant, data)
          /\ \A i \in 1..Len(modelData') : ~modelData'[i].keep]_vars

\* a refresh has succeeded and a record that was pinned before it is in the new catalog
C4_Witness ==
  /\ lastOp.op = "fetchSuccess"
  /\ fetchCount > 1
  /\ lastOp.pins \cap idsOf(modelData) # {}
  /\ pinned = 0

\* C5: at most one fetch is outstanding at any time: the loading flag is true while a
\* fetch is in flight, and a refresh cannot start a second one
C5_SingleFetch ==
  /\ inflight <= 1
  /\ (inflight = 1) <=> isLoading
  /\ isLoading => ~ENABLED Refresh

\* the fetch a refresh started is in flight
C5_Witness ==
  /\ lastOp.op = "refresh"
  /\ inflight = 1
  /\ fetchCount = 2

\* C6: in a burst of changes of the search text, each less than 300 ms after the one
\* before, the debounced query is updated once, 300 ms after the last change, to the
\* final text, and no text between is ever committed
C6_DebounceCommitsFinalText ==
  /\ [](timer # NoTimer => timer[1].val = searchQuery)
  /\ [](timer = NoTimer => debouncedSearchQuery = searchQuery)
  /\ [][/\ searchQuery' # searchQuery =>
             /\ timer' = <<[rem |-> 300, val |-> searchQuery']>>
             /\ debouncedSearchQuery' = debouncedSearchQuery
        /\ (timer # NoTimer /\ timer' # NoTimer /\ searchQuery' = searchQuery) =>
             /\ timer'[1].rem <= timer[1].rem
             /\ timer'[1].rem >= timer[1].rem - TickMs
        /\ (timer # NoTimer /\ timer' = NoTimer) =>
             /\ timer[1].rem = 0
             /\ debouncedSearchQuery' = searchQuery
        /\ debouncedSearchQuery' # debouncedSearchQuery =>
             /\ timer # NoTimer
             /\ timer' = NoTimer]_vars

\* the debounce has committed the last text of a burst in which a text before it was
\* replaced while pending
C6_Witness ==
  /\ lastOp.op = "debounce"
  /\ lastOp.superseded
  /\ debouncedSearchQuery = searchQuery
  /\ debouncedSearchQuery # <<>>
  /\ timer = NoTimer

\* C7: in every reachable state the displayed rows are the first min(displayLimit, total)
\* rows of the sorted view in the same order, and hasMore is true exactly when
\* total > displayLimit, total being the length of the sorted view
C7_DisplayedIsPrefix ==
  LET view == sortedModels
      rows == displayedModels
      total == Len(view)
  IN  /\ Len(rows) = Min(displayLimit, total)
      /\ \A i \in 1..Len(rows) : rows[i] = view[i]
      /\ hasMoreModels <=> total > displayLimit

\* after loadMore a raised limit still cuts the sorted view
C7_Witness ==
  /\ lastOp.op = "loadMoreModels"
  /\ displayLimit > MODELS_PER_PAGE
  /\ hasMoreModels
  /\ Len(displayedModels) = displayLimit

\* C8: whenever the debounced search query, the selected providers or the hide-free flag
\* change, the display limit is reset to the page size, whatever number of loadMore
\* calls came before
C8_FilterChangeResetsLimit ==
  [][(\/ debouncedSearchQuery' # debouncedSearchQuery
      \/ activeFilters' # activeFilters
      \/ filterOutFree' # filterOutFree) => displayLimit' = MODELS_PER_PAGE]_vars

\* a commit of the debounce has reset a limit that loadMore had raised twice
C8_Witness ==
  /\ lastOp.op = "debounce"
  /\ lastOp.limit > 2 * MODELS_PER_PAGE
  /\ displayLimit = MODELS_PER_PAGE

\* C9: requestSort and toggleKeep leave the display limit unchanged
C9_SortAndPinKeepLimit ==
  [][(\/ sortConfig' # sortConfig
      \/ (modelData' # modelData /\ inflight' = inflight)) =>
       displayLimit' = displayLimit]_vars

\* a record was pinned under another sort than the first while the limit was raised
C9_Witness ==
  /\ lastOp.op = "toggleKeep"
  /\ sortConfig # [key |-> "inputCost", direction |-> "ascending"]
  /\ lastOp.limit > MODELS_PER_PAGE
  /\ displayLimit = lastOp.limit

\* C10: loadMore raises the display limit by exactly one page size, and once all records
\* of the sorted view are shown no further loadMore takes effect
C10_LoadMoreAddsOnePage ==
  /\ [](lastOp.op = "loadMoreModels" =>
          /\ displayLimit = lastOp.limit + MODELS_PER_PAGE
          /\ Len(sortedModels) > lastOp.limit)
  /\ [][displayLimit' > displayLimit =>
          /\ displayLimit' = displayLimit + MODELS_PER_PAGE
          /\ lastOp'.op = "loadMoreModels"]_vars

\* loadMore has shown the last records of the sorted view
C10_Witness ==
  /\ lastOp.op = "loadMoreModels"
  /\ ~hasMoreModels
  /\ lastOp.limit < Len(sortedModels)
  /\ Len(displayedModels) = Len(sortedModels)

\* C11: with the catalog and the filters unchanged, one loadMore from the initial limit
\* shows min(initial limit + page size, total) rows; every loadMore shows more rows than
\* were shown before it and moves the limit by one whole page, so that at most
\* total / page size calls can follow one another; and once hasMore is false the rows
\* shown are all the rows of the sorted view
C11_LoadMoreReachesTotal ==
  /\ [](LET total == Len(sortedModels)
            rows  == Len(displayedModels)
        IN  /\ lastOp.op = "loadMoreModels" =>
                 /\ rows = Min(lastOp.limit + MODELS_PER_PAGE, total)
                 /\ rows > lastOp.limit
                 /\ lastOp.limit = MODELS_PER_PAGE => rows = Min(2 * MODELS_PER_PAGE, total)
            /\ displayLimit % MODELS_PER_PAGE = 0
            /\ total > displayLimit => rows = displayLimit
            /\ total <= displayLimit => rows = total)
  /\ [](~hasMoreModels => Len(displayedModels) = Len(sortedModels))
  /\ [][displayLimit' > displayLimit =>
          UNCHANGED <<modelData, debouncedSearchQuery, activeFilters, filterOutFree>>]_vars

\* loadMore was called again after the first call from the initial limit, and the last
\* call has shown the rest of a view longer than two pages
C11_Witness ==
  /\ lastOp.op = "loadMoreModels"
  /\ lastOp.limit = 2 * MODELS_PER_PAGE
  /\ Len(sortedModels) > 2 * MODELS_PER_PAGE
  /\ Len(displayedModels) = Len(sortedModels)
  /\ ~hasMoreModels

\* C12: the last-updated timestamp is written only when a fetch completes successfully;
\* a fetch that fails leaves it as it was, none if no fetch has succeeded
C12_LastUpdatedOnlyOnSuccess ==
  [][/\ lastUpdated' # lastUpdated => lastOp'.op = "fetchSuccess"
     /\ lastOp'.op = "fetchFail" => lastUpdated' = lastUpdated]_vars

\* a "$" followed by a decimal numeral: digits, and after a point digits again
IsDollarDecimal(label) ==
  /\ Len(label) >= 2
  /\ label[1] = "$"
  /\ LET n == DigitRun(label, 2)
     IN  /\ n >= 1
         /\ \/ n + 1 = Len(label)
            \/ /\ n + 3 <= Len(label)
               /\ label[n + 2] = "."
               /\ DigitRun(label, n + 3) = Len(label) - n - 2

\* the currency fields a record of the component has
CurrencyFields(model) ==
  IF variant = "C" THEN <<model.inputCost, model.outputCost>>
  ELSE <<model.inputCost, model.outputCost, model.imageCost, model.input_cache_read,
         model.input_cache_write>>

\* the raw price does not parse as a number, or is negative
Unpriced(price) == parseFloat(price).nan \/ parseFloat(price).m < 0

\* C13: after a successful fetch every currency field of every record is a "$"-prefixed
\* decimal or "N/A"; a raw price that does not parse or is negative gives "N/A", and so
\* does an absent optional price
C13_CurrencyFieldsWellFormed ==
  /\ \A i \in 1..Len(modelData) :
       \A f \in 1..Len(CurrencyFields(modelData[i])) :
         \/ IsDollarDecimal(CurrencyFields(modelData[i])[f])
         \/ CurrencyFields(modelData[i])[f] = Str_NA
  /\ lastOp.op = "fetchSuccess" =>
       \A i \in 1..Len(modelData) :
         /\ Unpriced(lastOp.response[i].prompt) => modelData[i].inputCost = Str_NA
         /\ Unpriced(lastOp.response[i].completion) => modelData[i].outputCost = Str_NA
         /\ (variant # "C" /\ Len(lastOp.response[i].image) = 0) =>
              modelData[i].imageCost = Str_NA

LabelValue(label) == parseFloat(replaceFirst(label, "$"))

\* C15: formatPrice is monotonic: of two non-negative raw rates (compared as rates per
\* million tokens) the smaller one never gets the label that shows the larger number
C15_FormatPriceMonotonic ==
  lastOp.op = "fetchSuccess" =>
    \A i, j \in 1..Len(modelData) :
      (/\ ~Unpriced(lastOp.response[i].prompt)
       /\ ~Unpriced(lastOp.response[j].prompt)
       /\ CompareNum(Scale10(parseFloat(lastOp.response[i].prompt), 6),
                     Scale10(parseFloat(lastOp.response[j].prompt), 6)) < 0)
      => /\ ~LabelValue(modelData[i].inputCost).nan
         /\ ~LabelValue(modelData[j].inputCost).nan
         /\ CompareNum(LabelValue(modelData[i].inputCost),
                       LabelValue(modelData[j].inputCost)) <= 0

\* C16: parseContextSize gives back the context length of every label formatContextSize
\* produces, those of the multiples of 1,000 and of 1,000,000 among them
C16_ContextSizeRoundTrip ==
  lastOp.op = "fetchSuccess" =>
    \A i \in 1..Len(modelData) :
      /\ modelData[i].contextWindow = formatContextSize(lastOp.response[i].context_length)
      /\ parseContextSize(modelData[i].contextWindow) = lastOp.response[i].context_length

\* free as the claim has it: "(free)" in the name, or a displayed input cost that parses
\* to 0, or a displayed output cost that parses to 0
FreeRecord(model) ==
  \/ includes(model.name, Str_free)
  \/ isZero(LabelValue(model.inputCost))
  \/ isZero(LabelValue(model.outputCost))

\* C17: with hide-free on, the filtered result holds no unpinned free record, and every
\* pinned free record of the catalog is in it
C17_HideFreeExcludesFree ==
  filterOutFree =>
    /\ \A i \in 1..Len(filteredModels) :
         FreeRecord(filteredModels[i]) => filteredModels[i].keep
    /\ \A i \in 1..Len(modelData) :
         (modelData[i].keep /\ FreeRecord(modelData[i])) =>
           modelData[i].id \in idsOf(filteredModels)

\* hide-free is on; the record free by its input price alone is pinned and stays, those
\* free by name alone and by output price alone are unpinned and gone
C17_Witness ==
  /\ filterOutFree
  /\ Len(modelData) = 4
  /\ ~includes(modelData[3].name, Str_free) /\ ~isZero(LabelValue(modelData[3].outputCost))
  /\ ~isZero(LabelValue(modelData[2].inputCost)) /\ ~isZero(LabelValue(modelData[2].outputCost))
  /\ ~includes(modelData[4].name, Str_free) /\ ~isZero(LabelValue(modelData[4].inputCost))
  /\ modelData[3].keep /\ ~modelData[2].keep /\ ~modelData[4].keep /\ ~modelData[1].keep
  /\ idsOf(filteredModels) = {modelData[1].id, modelData[3].id}

\* the error message is shown and no fetch is in flight
ErrorShown == error # <<>> /\ inflight = 0

\* the indices at which two catalogs of one length differ
Differing(prev, next) == {i \in 1..Len(prev) : prev[i] # next[i]}

\* what the user operations do, told by the variables they change; none of the
\* conditions reads the error
OperationEffects ==
  /\ displayLimit' > displayLimit => displayLimit' = displayLimit + MODELS_PER_PAGE
  /\ sortConfig' # sortConfig =>
       sortConfig'.direction =
         IF sortConfig'.key = sortConfig.key /\ sortConfig.direction = "ascending"
         THEN "descending" ELSE "ascending"
  /\ (modelData' # modelData /\ inflight' = inflight) =>
       /\ Len(modelData') = Len(modelData)
       /\ Cardinality(Differing(modelData, modelData')) = 1
       /\ \A i \in Differing(modelData, modelData') :
            modelData'[i] = [modelData[i] EXCEPT !.keep = ~modelData[i].keep]
  /\ activeFilters' # activeFilters =>
       /\ displayLimit' = MODELS_PER_PAGE
       /\ \E i \in 1..Len(modelData) :
            \/ activeFilters' = Append(activeFilters, modelData[i].provider)
            \/ /\ arrayIncludes(activeFilters, modelData[i].provider)
               /\ activeFilters' = SelectSeq(activeFilters, LAMBDA p : p # modelData[i].provider)
  /\ searchQuery' # searchQuery => timer' = <<[rem |-> DEBOUNCE_MS, val |-> searchQuery']>>
  /\ inflight' > inflight => isLoading' /\ error' = <<>>

\* C18: while the error message is shown and no fetch is in flight no control is
\* disabled (search input, sort, pin, provider filter, Load More where there are more
\* rows, and the refresh button where there is one), the operations leave the message
\* alone until a fetch starts, and they do what they do without an error
C18_ErrorLeavesControlsEnabled ==
  /\ [](ErrorShown =>
          /\ Interactive
          /\ variant # "A" => refreshEnabled
          /\ (variant # "A" /\ fetchCount < MaxFetches) => ENABLED Refresh
          /\ \E text \in {<<>>, <<"g">>} : ENABLED SetSearchQuery(text)
          /\ ENABLED requestSort("inputCost"))
  /\ [][OperationEffects]_vars
  /\ [][(ErrorShown /\ error' # error) => inflight' > inflight]_vars

\* Load More was clicked while the error message of a failed refresh was shown
C18_Witness ==
  /\ ErrorShown
  /\ lastOp.op = "loadMoreModels"
  /\ displayLimit = lastOp.limit + MODELS_PER_PAGE
  /\ Len(modelData) > 0

\* the whole lowercased query is a substring of the lowercased text
WholeQueryIn(text) == includes(toLowerCase(text), toLowerCase(debouncedSearchQuery))

\* every term of the query, split at its spaces, is a substring of the name, whatever
\* the case of either
EveryTermInName(model) ==
  \A t \in 1..Len(split(debouncedSearchQuery, " ")) :
    includes(toLowerCase(model.name), toLowerCase(split(debouncedSearchQuery, " ")[t]))

\* the text rule of the claim: (a) every term in the name, or (b) the whole query in
\* the provider, in some modality or in some feature tag
TextRuleAsClaimed(model) ==
  \/ EveryTermInName(model)
  \/ WholeQueryIn(model.provider)
  \/ \E i \in 1..Len(model.modalities) : WholeQueryIn(model.modalities[i])
  \/ \E i \in 1..Len(model.features) : WholeQueryIn(model.features[i])

\* the text rule of each component: the claimed one in the two components of
\* part_000, with the description added in the one that has a refresh button; the
\* whole query in the name, the provider or a feature tag in pricing-table.tsx
TextRulePerComponent(model) ==
  IF variant = "C"
  THEN \/ WholeQueryIn(model.name)
       \/ WholeQueryIn(model.provider)
       \/ \E i \in 1..Len(model.features) : WholeQueryIn(model.features[i])
  ELSE \/ TextRuleAsClaimed(model)
       \/ variant = "B" /\ WholeQueryIn(model.description)

SelectedProviders == {activeFilters[i] : i \in 1..Len(activeFilters)}

\* the record passes the text rule and the hide-free rule
PassesOtherRules(model) ==
  /\ TextRulePerComponent(model)
  /\ variant = "C" \/ ~filterOutFree \/ ~FreeRecord(model)

\* C20: with providers selected, every unpinned record of the filtered result has one
\* of them; with none selected the provider rule excludes no record: whatever passes the
\* other rules is in the result
C20_ProviderRule ==
  /\ Len(activeFilters) > 0 =>
       \A i \in 1..Len(filteredModels) :
         ~filteredModels[i].keep => filteredModels[i].provider \in SelectedProviders
  /\ Len(activeFilters) = 0 =>
       \A i \in 1..Len(modelData) :
         PassesOtherRules(modelData[i]) => modelData[i].id \in idsOf(filteredModels)

\* one provider is selected: an unpinned record of another provider that passes the
\* other rules is not in the result, an unpinned record of the selected one is
C20_Witness ==
  /\ Len(activeFilters) = 1
  /\ \E i \in 1..Len(modelData) :
       /\ ~modelData[i].keep
       /\ PassesOtherRules(modelData[i])
       /\ modelData[i].provider \notin SelectedProviders
       /\ modelData[i].id \notin idsOf(filteredModels)
  /\ \E i \in 1..Len(filteredModels) :
       ~filteredModels[i].keep /\ filteredModels[i].provider \in SelectedProviders

\* the keys of the currency fields a component can sort by
CurrencyKeys ==
  IF variant = "C" THEN {"inputCost", "outputCost"}
  ELSE {"inputCost", "outputCost", "imageCost", "input_cache_read", "input_cache_write"}

\* label a is not after label b in the active direction, by the numbers they show
InNumericOrder(a, b) ==
  IF sortConfig.direction = "ascending" THEN CompareNum(LabelValue(a), LabelValue(b)) <= 0
  ELSE CompareNum(LabelValue(a), LabelValue(b)) >= 0

\* C21: under a currency sort key the records of each pin partition whose labels show
\* a number are ordered by that number, not by the text of the label
C21_CurrencySortIsNumeric ==
  sortConfig.key \in CurrencyKeys =>
    LET view == sortedModels
    IN  \A i, j \in 1..Len(view) :
          (/\ i < j
           /\ view[i].keep = view[j].keep
           /\ ~LabelValue(view[i][sortConfig.key]).nan
           /\ ~LabelValue(view[j][sortConfig.key]).nan)
          => InNumericOrder(view[i][sortConfig.key], view[j][sortConfig.key])

\* C22: under an ascending currency sort every unpinned record labelled "N/A" comes
\* after every unpinned record whose label shows a number
C22_UnpricedSortLast ==
  (sortConfig.key \in CurrencyKeys /\ sortConfig.direction = "ascending") =>
    LET view == sortedModels
    IN  \A i, j \in 1..Len(view) :
          (/\ ~view[i].keep
           /\ ~view[j].keep
           /\ view[i][sortConfig.key] = Str_NA
           /\ ~LabelValue(view[j][sortConfig.key]).nan)
          => j < i

\* the place of a record in the catalog
CatalogIndex(model) == CHOOSE i \in 1..Len(modelData) : modelData[i].id = model.id

\* C23: records that compare equal under the active sort keep their catalog order in
\* the sorted view, in both directions
C23_SortIsStable ==
  LET view == sortedModels
  IN  \A i, j \in 1..Len(view) :
        (i < j /\ NaNToZero(compareModels(view[i], view[j])) = 0)
        => CatalogIndex(view[i]) < CatalogIndex(view[j])

\* C24: requestSort(k) makes k the sort key; the direction is descending exactly when k
\* was the active key in ascending direction, and ascending otherwise; the sort state
\* after mount is inputCost ascending
C24_RequestSortTogglesDirection ==
  /\ [](lastOp.op = "mount" => sortConfig = [key |-> "inputCost", direction |-> "ascending"])
  /\ [](lastOp.op = "requestSort" => sortConfig.key = lastOp.key)
  /\ [][(sortConfig' # sortConfig \/ (lastOp' # lastOp /\ lastOp'.op = "requestSort")) =>
          /\ lastOp'.op = "requestSort"
          /\ sortConfig'.key = lastOp'.key
          /\ sortConfig'.direction = "descending" <=>
               (sortConfig.key = lastOp'.key /\ sortConfig.direction = "ascending")
          /\ sortConfig'.direction \in {"ascending", "descending"}]_vars

\* requestSort was called with the active key, provider, while the direction was
\* ascending
C24_Witness ==
  /\ lastOp.op = "requestSort"
  /\ lastOp.key = "provider"
  /\ sortConfig = [key |-> "provider", direction |-> "descending"]
  /\ Len(modelData) > 0
  /\ \E i \in 1..Len(modelData) : modelData[i].keep

\* the parts of the error message shown
MessageParts == IF error = <<>> THEN {} ELSE {error[1][i] : i \in 1..Len(error[1])}

\* C25: every kind of fetch failure is caught and ends in the error state: the message
\* is not empty, after a non-2xx response it holds the status and the reason phrase,
\* and the loading flag is false afterwards
C25_FailuresEndInErrorState ==
  /\ [](inflight > 0 => \A failure \in Failures : ENABLED FetchFail(failure))
  /\ [](lastOp.op = "fetchFail" =>
          /\ lastOp.failure \in Failures
          /\ ~isLoading
          /\ MessageParts # {}
          /\ "" \notin MessageParts
          /\ lastOp.failure = "http" => {HttpStatus, HttpStatusText} \subseteq MessageParts)

\* a refresh was answered with a non-2xx status while a catalog was shown
C25_Witness ==
  /\ lastOp.op = "fetchFail"
  /\ lastOp.failure = "http"
  /\ Len(modelData) > 0
  /\ HttpStatus \in MessageParts
  /\ ~isLoading

\* C26: the loading flag is true exactly while a fetch is in flight, and, the transport
\* answering or failing sooner or later, every fetch that is started completes, with
\* the loading flag false on completion
C26_FetchCompletes ==
  /\ [](isLoading <=> inflight > 0)
  /\ [][inflight' < inflight => ~isLoading']_vars
  /\ (inflight > 0) ~> (inflight = 0 /\ ~isLoading)

\* a refresh, the second fetch of the run, has completed with a catalog
C26_Witness ==
  /\ fetchCount = 2
  /\ inflight = 0
  /\ ~isLoading
  /\ lastOp.op = "fetchSuccess"
  /\ error = <<>>

\* the raw prompt and completion prices are both numbers above 0
StrictlyPositivePrices(raw) ==
  /\ ~parseFloat(raw.prompt).nan /\ parseFloat(raw.prompt).m > 0
  /\ ~parseFloat(raw.completion).nan /\ parseFloat(raw.completion).m > 0

\* C27: with hide-free on, an unpinned record without "(free)" in its name whose raw
\* prompt and completion prices are both above 0 is not excluded by the free-tier rule:
\* it is in the filtered result whenever it passes the text and the provider rule
C27_PaidRecordsNotHidden ==
  filterOutFree =>
    \A i \in 1..Len(modelData) :
      \A j \in 1..Len(SmallCatalog) :
        (/\ SmallCatalog[j].id = modelData[i].id
         /\ ~modelData[i].keep
         /\ ~includes(modelData[i].name, Str_free)
         /\ StrictlyPositivePrices(SmallCatalog[j])
         /\ TextRulePerComponent(modelData[i])
         /\ (Len(activeFilters) = 0 \/ modelData[i].provider \in SelectedProviders))
        => modelData[i].id \in idsOf(filteredModels)

\* C28: in the components with a refresh button an error message is shown only while no
\* fetch is in flight and only from a failed fetch on: the start of a fetch clears it,
\* a fetch that succeeds leaves none, and nothing but a failing fetch sets one
C28_ErrorOnlyAfterFailure ==
  /\ []((variant # "A" /\ error # <<>>) => (inflight = 0 /\ ~isLoading))
  /\ [][variant # "A" =>
          /\ inflight' > inflight => error' = <<>>
          /\ (inflight' < inflight /\ lastOp'.op = "fetchSuccess") => error' = <<>>
          /\ (error' # error /\ error' # <<>>) =>
               (inflight' < inflight /\ lastOp'.op = "fetchFail")]_vars

\* the first fetch failed, and the refresh that was started then has cleared the message
C28_Witness ==
  /\ variant # "A"
  /\ lastOp.op = "refresh"
  /\ inflight = 1
  /\ lastUpdated = <<>>
  /\ modelData = <<>>
  /\ error = <<>>

\* C29: every selected provider is in the provider list derived from the current
\* catalog
C29_SelectedProvidersAreListed ==
  \A i \in 1..Len(activeFilters) : arrayIncludes(providers, activeFilters[i])

\* the keys of the fields of a display record that hold no string
ArrayKeys == {"features", "modalities"}

\* C30: under a sort key that names a field holding no string the comparator gives 0 for
\* every two records of one pin partition, and the sorted view is the filtered records
\* in catalog order, the pinned ones first, in either direction
C30_ArrayKeyKeepsCatalogOrder ==
  sortConfig.key \in ArrayKeys =>
    /\ \A i, j \in 1..Len(filteredModels) :
         filteredModels[i].keep = filteredModels[j].keep =>
           compareModels(filteredModels[i], filteredModels[j]) = Num(0, 0)
    /\ sortedModels = SelectSeq(filteredModels, LAMBDA m : m.keep)
                        \o SelectSeq(filteredModels, LAMBDA m : ~m.keep)

\* the features column is the sort key, descending, with a later record pinned and an
\* earlier one not
C30_Witness ==
  /\ sortConfig = [key |-> "features", direction |-> "descending"]
  /\ Len(modelData) >= 3
  /\ ~modelData[1].keep
  /\ modelData[3].keep
  /\ modelData[1].features # modelData[2].features
  /\ Len(filteredModels) >= 3

====
